---------------------------- MODULE Spec2Model ----------------------------
(***************************************************************************)
(* Model of the Google Maps review scraper API:                            *)
(*   app/main.py    - the job map jobs_db, the routes /scrape, /job/{id},  *)
(*                    /download/{id} and the background task              *)
(*                    run_scraper_sync;                                    *)
(*   app/scraper.py - GoogleMapsScraper.scrape and its steps.              *)
(*                                                                         *)
(* Sync routes and sync background tasks run on worker threads, so the     *)
(* statements of run_scraper_sync interleave with the routes and with the  *)
(* tasks of other jobs.  One action of the model is one statement (or one  *)
(* group of statements that touch no shared state) of the code.  A single  *)
(* dict item assignment and a single dict.update call with string keys are *)
(* atomic under the interpreter lock.  The print calls are taken not to    *)
(* raise.                                                                  *)
(***************************************************************************)
EXTENDS Integers, Sequences, FiniteSets, TLC

(***************************************************************************)
(* Bounds of the model.                                                    *)
(***************************************************************************)
MaxElems == 2       \* number of data-review-id elements present on a page
MaxScrolls == 8     \* largest max_scrolls a GoogleMapsScraper is constructed with

\* the job ids: two jobs, so that the tasks of different jobs interleave
\* (a task reads and writes only jobs_db[job_id] and output/<job_id>.json)
JobIds == {1, 2}
Urls == {"place/X", "place/Y"}
ReviewIds == {"r1", "r2"}

None == "None"
Now == "ts"                         \* datetime.now().isoformat()
CHROMEDRIVER_PATH == "chromedriver"

VARIABLES
    jobs_db,        \* main.py: job_id -> job dict (a function on field names)
    files,          \* the output directory: one entry per output/<job_id>.json
    pc,             \* position of run_scraper_sync(job_id), "absent" before submit
    driver,         \* scraper.driver of the job's GoogleMapsScraper
    reviews_data,   \* local of scrape / run_scraper_sync
    exc,            \* the exception in flight in the job's task
    harvest,        \* history: "returned" once scraper.scrape() returned, or the
                    \* step of scrape that raised
    download,       \* the job whose file a /download request is about to read, 0 if none
    resp            \* the response returned by the last step, if it served a request

\* the state of one call of _scroll_reviews (scraper.py:149-190), which the
\* specification SpecScroll runs on its own
VARIABLES
    max_scrolls,    \* self.max_scrolls, the constructor's parameter
    seen_ids,       \* local of _scroll_reviews
    stale_count,    \* local of _scroll_reviews
    scroll_count,   \* local of _scroll_reviews
    current_ids,    \* local of _scroll_reviews
    scroll_pc,      \* position of the call: "idle", "wait", "loop", "returned", "raised"
    observed,       \* history: the union of the current_ids of all attempts
    last_new        \* history: the last attempt that found a new id, 0 if none

loop == <<max_scrolls, seen_ids, stale_count, scroll_count, current_ids, scroll_pc,
          observed, last_new>>

jobs == <<jobs_db, files, pc, driver, reviews_data, exc, harvest, download, resp>>

\* the state of one call of _extract_company_info (scraper.py:86-119) and of
\* one call of _extract_reviews (scraper.py:202-260), which the
\* specifications SpecCompany and SpecRecords run on their own
VARIABLES
    company_name,   \* local of _extract_company_info, parameter of _extract_reviews
    phone_number,   \* local of _extract_company_info, parameter of _extract_reviews
    cand,           \* the number of phone_candidates the loop of line 107 has tried
    info_pc,        \* position of _extract_company_info: "idle", "name", "phone",
                    \* "break", "returned", "raised"
    consulted,      \* history: the reads of the candidates tried, in order
    reviews,        \* the list reviews_data that _extract_reviews builds
    row,            \* the locals review_id, rating, text, reviewer, date of line 208's loop
    present,        \* history: the elements the loop of line 208 has passed
    rec_pc          \* position of _extract_reviews: "idle", "find", "next", "rating",
                    \* "text", "reviewer", "date", "returned", "raised"

extraction == <<company_name, phone_number, cand, info_pc, consulted, reviews,
                row, present, rec_pc>>

vars == <<jobs_db, files, pc, driver, reviews_data, exc, harvest, download, resp,
          max_scrolls, seen_ids, stale_count, scroll_count, current_ids, scroll_pc,
          observed, last_new,
          company_name, phone_number, cand, info_pc, consulted, reviews,
          row, present, rec_pc>>

(***************************************************************************)
(* Python values.                                                          *)
(***************************************************************************)
\* d.update(kv); d[k] = v is the case of one key
Update(d, kv) ==
    [k \in DOMAIN d \cup DOMAIN kv |-> IF k \in DOMAIN kv THEN kv[k] ELSE d[k]]

\* an exception: its class and str(e), a sequence of message parts
Raise(type, msg) == [type |-> type, msg |-> msg]

NoExc == Raise(None, << >>)

\* isinstance(e, ValueError): UnicodeEncodeError derives from ValueError
IsValueError(e) == e.type \in {"ValueError", "UnicodeEncodeError"}

IsFileNotFoundError(e) == e.type = "FileNotFoundError"

\* a path of the output directory that holds no file
NoFile == [exists |-> FALSE, complete |-> FALSE, data |-> << >>]

(***************************************************************************)
(* Init: the module has just been imported, jobs_db = {} (main.py:60) and  *)
(* the output directory holds no file.                                     *)
(***************************************************************************)
NoResp == [route |-> None, job_id |-> 0, status_code |-> 0, detail |-> None,
           body |-> << >>, data |-> << >>]

InitJobs ==
    /\ jobs_db = << >>
    /\ files = [j \in JobIds |-> NoFile]
    /\ pc = [j \in JobIds |-> "absent"]
    /\ driver = [j \in JobIds |-> None]
    /\ reviews_data = [j \in JobIds |-> << >>]
    /\ exc = [j \in JobIds |-> NoExc]
    /\ harvest = [j \in JobIds |-> "pending"]
    /\ download = 0
    /\ resp = NoResp

\* the locals of _scroll_reviews before the call
InitLocals ==
    /\ seen_ids = {}
    /\ stale_count = 0
    /\ scroll_count = 0
    /\ current_ids = {}
    /\ observed = {}
    /\ last_new = 0

\* lines 213-239: the locals of the loop body before the reads
NoRow == [review_id |-> "", rating |-> <<"No rating">>, text |-> << >>,
          reviewer |-> << >>, date |-> << >>]

\* the locals of _extract_company_info and _extract_reviews before the calls
InitExtraction ==
    /\ company_name = << >>
    /\ phone_number = << >>
    /\ cand = 0
    /\ info_pc = "idle"
    /\ consulted = << >>
    /\ reviews = << >>
    /\ row = NoRow
    /\ present = << >>
    /\ rec_pc = "idle"

Init ==
    /\ InitJobs
    /\ InitLocals
    /\ InitExtraction
    /\ max_scrolls = 0
    /\ scroll_pc = "idle"

(***************************************************************************)
(* The routes of main.py.                                                  *)
(***************************************************************************)
\* a uuid4 that may return the token of an existing job
uuid4_reused == CHOOSE j \in JobIds : TRUE

\* str(uuid.uuid4()): a token no existing job has.  The tokens are opaque,
\* so the model draws the least unused one.
uuid4 ==
    CHOOSE j \in JobIds :
        j \notin DOMAIN jobs_db /\ \A k \in 1..(j - 1) : k \in DOMAIN jobs_db

\* the dict start_scrape stores for a new job
NewJob(job_id, maps_url) ==
    [job_id |-> job_id, status |-> "queued", created_at |-> Now, maps_url |-> maps_url]

HTTPException(route, job_id, status_code, detail) ==
    [route |-> route, job_id |-> job_id, status_code |-> status_code,
     detail |-> detail, body |-> << >>, data |-> << >>]

\* a 200 response: body is the job dict returned, data the "data" list
Response(route, job_id, body, data) ==
    [route |-> route, job_id |-> job_id, status_code |-> 200,
     detail |-> None, body |-> body, data |-> data]

\* jobs_db = {job_id: {...}}: the map is replaced
Insert_reset(db, job_id, job) == [k \in {job_id} |-> job]

\* jobs_db[job_id] = {...}
Insert(db, job_id, job) ==
    [k \in DOMAIN db \cup {job_id} |-> IF k = job_id THEN job ELSE db[k]]

\* POST /scrape
start_scrape(maps_url) ==
    /\ DOMAIN jobs_db # JobIds
    /\ LET job_id == uuid4
       IN /\ jobs_db' = Insert(jobs_db, job_id, NewJob(job_id, maps_url))
          /\ pc' = [pc EXCEPT ![job_id] = "l74"]     \* background_tasks.add_task
          /\ resp' = Response("scrape", job_id, jobs_db'[job_id], << >>)
    /\ UNCHANGED <<files, driver, reviews_data, exc, harvest, download>>
    /\ UNCHANGED loop
    /\ UNCHANGED extraction

\* GET /job/{job_id}
get_job_status(job_id) ==
    /\ resp' = IF job_id \notin DOMAIN jobs_db
               THEN HTTPException("job", job_id, 404, "Job not found")
               ELSE Response("job", job_id, jobs_db[job_id], << >>)
    /\ UNCHANGED <<jobs_db, files, pc, driver, reviews_data, exc, harvest, download>>
    /\ UNCHANGED loop
    /\ UNCHANGED extraction

\* one output path for every job
OutputFile_shared(job_id) == <<"output", 1>>

\* str(output_dir / f"{job_id}.json")
OutputFile(job_id) == <<"output", job_id>>

\* the file a path names: the key of files is the job_id in the path
FileAt(path) == files[path[2]]

\* lines 152-159 without the status check of lines 155-156
download_results_unchecked(job_id) ==
    /\ download = 0
    /\ LET job == IF job_id \in DOMAIN jobs_db THEN jobs_db[job_id] ELSE << >>
           output_path == job["output_file"]
       IN IF job = << >>
          THEN /\ resp' = HTTPException("download", job_id, 404, "Job not found")
               /\ download' = 0
          ELSE IF "output_file" \notin DOMAIN job \/ ~FileAt(output_path).exists
          THEN /\ resp' = HTTPException("download", job_id, 404, "Output file not found")
               /\ download' = 0
          ELSE /\ resp' = NoResp
               /\ download' = job_id
    /\ UNCHANGED <<jobs_db, files, pc, driver, reviews_data, exc, harvest>>
    /\ UNCHANGED loop
    /\ UNCHANGED extraction

\* GET /download/{job_id}, lines 152-159: the checks before the file is opened
download_results(job_id) ==
    /\ download = 0
    /\ LET job == IF job_id \in DOMAIN jobs_db THEN jobs_db[job_id] ELSE << >>
           output_path == job["output_file"]     \* job.get("output_file")
       IN IF job = << >>
          THEN /\ resp' = HTTPException("download", job_id, 404, "Job not found")
               /\ download' = 0
          ELSE IF job["status"] # "completed"
          THEN /\ resp' = HTTPException("download", job_id, 400, "Job not completed yet")
               /\ download' = 0
          ELSE IF "output_file" \notin DOMAIN job \/ ~FileAt(output_path).exists
          THEN /\ resp' = HTTPException("download", job_id, 404, "Output file not found")
               /\ download' = 0
          ELSE /\ resp' = NoResp
               /\ download' = job_id
    /\ UNCHANGED <<jobs_db, files, pc, driver, reviews_data, exc, harvest>>
    /\ UNCHANGED loop
    /\ UNCHANGED extraction

\* json.load(f): a file that was not written to its end does not parse
json_load(file) ==
    IF file.complete THEN [ok |-> TRUE, data |-> file.data]
    ELSE [ok |-> FALSE, data |-> << >>]

\* GET /download/{job_id}, lines 162-164: read the file and answer
download_read ==
    /\ download # 0
    /\ LET loaded == json_load(FileAt(jobs_db[download]["output_file"]))
       IN resp' = IF loaded.ok
                  THEN Response("download", download, << >>, loaded.data)
                  ELSE HTTPException("download", download, 500, "JSONDecodeError")
    /\ download' = 0
    /\ UNCHANGED <<jobs_db, files, pc, driver, reviews_data, exc, harvest>>
    /\ UNCHANGED loop
    /\ UNCHANGED extraction

(***************************************************************************)
(* app/scraper.py: GoogleMapsScraper.scrape.  Every exception raised in    *)
(* the try block of scrape is caught by "except Exception as e" and raised *)
(* again as Exception(f"Scraping failed: {str(e)}") (lines 290-291); the   *)
(* finally block then quits the driver if there is one (lines 293-295).    *)
(***************************************************************************)
\* a scrape that lets the exception through as it is
ScrapeFailed_reraised(e) == e

ScrapeFailed(e) == Raise("Exception", <<"Scraping failed: ">> \o e.msg)

\* a scrape that starts over when a step raises
ScrapeRaise_retry(job_id, cause, e) ==
    /\ exc' = exc
    /\ harvest' = [harvest EXCEPT ![job_id] = cause]
    /\ pc' = [pc EXCEPT ![job_id] = "setup"]

\* the task of job_id leaves the try block of scrape with exception e;
\* cause names the step that raised it
ScrapeRaise(job_id, cause, e) ==
    /\ exc' = [exc EXCEPT ![job_id] = ScrapeFailed(e)]
    /\ harvest' = [harvest EXCEPT ![job_id] = cause]
    /\ pc' = [pc EXCEPT ![job_id] = "finally"]

\* what webdriver.Chrome(service=..., options=...) raises when the driver
\* executable is missing or cannot be started (it depends on the selenium release)
SetupErrors == {"FileNotFoundError", "WebDriverException"}

\* line 267: self._setup_driver()
_setup_driver(job_id) ==
    /\ pc[job_id] = "setup"
    /\ \/ \* the session is created and configured
          /\ driver' = [driver EXCEPT ![job_id] = "open"]
          /\ pc' = [pc EXCEPT ![job_id] = "get"]
          /\ UNCHANGED <<exc, harvest>>
       \/ \* line 61 raises: self.driver stays None
          /\ \E type \in SetupErrors :
                ScrapeRaise(job_id, "no_driver",
                    Raise(type, <<"chromedriver cannot be started">>))
          /\ UNCHANGED driver
       \/ \* lines 64-70 raise after the session was created
          /\ driver' = [driver EXCEPT ![job_id] = "open"]
          /\ ScrapeRaise(job_id, "setup_failed",
                Raise("WebDriverException", <<"cdp command failed">>))
    /\ resp' = NoResp
    /\ UNCHANGED <<jobs_db, files, reviews_data, download>>
    /\ UNCHANGED loop
    /\ UNCHANGED extraction

\* lines 269-278: driver.get, the cookie popup, the company details
scrape_get(job_id) ==
    /\ pc[job_id] = "get"
    /\ \/ /\ pc' = [pc EXCEPT ![job_id] = "tab"]
          /\ UNCHANGED <<exc, harvest>>
       \/ ScrapeRaise(job_id, "get_failed",
              Raise("WebDriverException", <<"navigation failed">>))
    /\ resp' = NoResp
    /\ UNCHANGED <<jobs_db, files, driver, reviews_data, download>>
    /\ UNCHANGED loop
    /\ UNCHANGED extraction

\* the candidates of possible_tabs, in order (lines 124-128)
possible_tabs == 1..3

\* line 280: self._open_reviews_tab().  clickable: the candidates that
\* become clickable within the wait; click_ok: whether the click script runs
_open_reviews_tab(job_id) ==
    /\ pc[job_id] = "tab"
    /\ \E clickable \in SUBSET possible_tabs, click_ok \in BOOLEAN :
          IF clickable = {}
          THEN \* every wait.until timed out: line 144, wrapped at line 147
               ScrapeRaise(job_id, "tab_not_clickable", Raise("Exception",
                   <<"Could not open reviews section: ",
                     "Could not find the reviews tab on the page">>))
          ELSE IF ~click_ok
          THEN ScrapeRaise(job_id, "tab_click_failed", Raise("Exception",
                   <<"Could not open reviews section: ", "javascript error">>))
          ELSE /\ pc' = [pc EXCEPT ![job_id] = "scroll"]
               /\ UNCHANGED <<exc, harvest>>
    /\ resp' = NoResp
    /\ UNCHANGED <<jobs_db, files, driver, reviews_data, download>>
    /\ UNCHANGED loop
    /\ UNCHANGED extraction

\* lines 281-282: self._scroll_reviews() (its result is dropped) and
\* self._expand_see_more()
_scroll_reviews(job_id) ==
    /\ pc[job_id] = "scroll"
    /\ \/ /\ pc' = [pc EXCEPT ![job_id] = "extract"]
          /\ UNCHANGED <<exc, harvest>>
       \/ \* line 151: the scroll container is not found within the wait
          ScrapeRaise(job_id, "scroll_timeout", Raise("TimeoutException", <<"Message: ">>))
       \/ \* line 173: an element read in the loop has gone stale
          ScrapeRaise(job_id, "scroll_stale",
              Raise("StaleElementReferenceException", <<"Message: stale element">>))
    /\ resp' = NoResp
    /\ UNCHANGED <<jobs_db, files, driver, reviews_data, download>>
    /\ UNCHANGED loop
    /\ UNCHANGED extraction

\* an element of find_elements('//div[@data-review-id]'): its attribute, and
\* whether it has gone stale when it is read
Element == [id : ReviewIds \cup {""}, stale : BOOLEAN]

RECURSIVE SeqsUpTo(_, _)
SeqsUpTo(S, n) ==
    IF n = 0 THEN {<< >>}
    ELSE LET shorter == SeqsUpTo(S, n - 1)
         IN shorter \cup {Append(q, x) : q \in {r \in shorter : Len(r) = n - 1}, x \in S}

\* _extract_reviews, lines 205-260: one record per element whose id reads
\* non-empty; a stale element raises and is skipped (lines 255-258)
RECURSIVE ExtractReviews(_)
ExtractReviews(elements) ==
    IF elements = << >> THEN << >>
    ELSE LET r == Head(elements)
             rest == ExtractReviews(Tail(elements))
         IN IF r.stale \/ r.id = "" THEN rest
            ELSE <<[review_id |-> r.id]>> \o rest

\* line 284: reviews_data = self._extract_reviews(company_name, phone_number)
_extract_reviews(job_id) ==
    /\ pc[job_id] = "extract"
    /\ \/ /\ \E elements \in SeqsUpTo(Element, MaxElems) :
                reviews_data' = [reviews_data EXCEPT
                                    ![job_id] = ExtractReviews(elements)]
          /\ pc' = [pc EXCEPT ![job_id] = "finally"]
          /\ UNCHANGED <<exc, harvest>>
       \/ \* line 206: find_elements raises, outside the try of the loop
          /\ ScrapeRaise(job_id, "extract_failed",
                Raise("WebDriverException", <<"Message: no such window">>))
          /\ UNCHANGED reviews_data
    /\ resp' = NoResp
    /\ UNCHANGED <<jobs_db, files, driver, download>>
    /\ UNCHANGED loop
    /\ UNCHANGED extraction

\* a scrape that raises when the extraction found no record
scrape_finally_no_records(job_id) ==
    /\ pc[job_id] = "finally"
    /\ driver' = [driver EXCEPT ![job_id] = IF @ = "open" THEN "quit" ELSE @]
    /\ IF exc[job_id] = NoExc /\ reviews_data[job_id] # << >>
       THEN /\ harvest' = [harvest EXCEPT ![job_id] = "returned"]
            /\ pc' = [pc EXCEPT ![job_id] = "l86"]
            /\ UNCHANGED exc
       ELSE /\ harvest' = [harvest EXCEPT ![job_id] =
                              IF exc[job_id] = NoExc THEN "no_records" ELSE @]
            /\ exc' = [exc EXCEPT ![job_id] =
                          IF @ = NoExc
                          THEN Raise("ValueError", <<"No reviews were extracted">>)
                          ELSE @]
            /\ pc' = [pc EXCEPT ![job_id] = "except"]
    /\ resp' = NoResp
    /\ UNCHANGED <<jobs_db, files, reviews_data, download>>
    /\ UNCHANGED loop
    /\ UNCHANGED extraction

\* a scrape that quits the driver at the end of the try block only
scrape_finally_no_quit_on_error(job_id) ==
    /\ pc[job_id] = "finally"
    /\ IF exc[job_id] = NoExc
       THEN /\ driver' = [driver EXCEPT ![job_id] = IF @ = "open" THEN "quit" ELSE @]
            /\ harvest' = [harvest EXCEPT ![job_id] = "returned"]
            /\ pc' = [pc EXCEPT ![job_id] = "l86"]
       ELSE /\ UNCHANGED <<driver, harvest>>
            /\ pc' = [pc EXCEPT ![job_id] = "except"]
    /\ resp' = NoResp
    /\ UNCHANGED <<jobs_db, files, reviews_data, exc, download>>
    /\ UNCHANGED loop
    /\ UNCHANGED extraction

\* lines 288-295: the finally block, then scrape returns reviews_data to
\* line 84 of run_scraper_sync or its exception reaches the handlers there
scrape_finally(job_id) ==
    /\ pc[job_id] = "finally"
    /\ driver' = [driver EXCEPT ![job_id] = IF @ = "open" THEN "quit" ELSE @]
    /\ IF exc[job_id] = NoExc
       THEN /\ harvest' = [harvest EXCEPT ![job_id] = "returned"]
            /\ pc' = [pc EXCEPT ![job_id] = "l86"]
       ELSE /\ UNCHANGED harvest
            /\ pc' = [pc EXCEPT ![job_id] = "except"]
    /\ resp' = NoResp
    /\ UNCHANGED <<jobs_db, files, reviews_data, exc, download>>
    /\ UNCHANGED loop
    /\ UNCHANGED extraction

(***************************************************************************)
(* app/main.py: run_scraper_sync(job_id, maps_url), the background task.   *)
(***************************************************************************)
\* line 74: jobs_db[job_id]["status"] = "processing"
run_scraper_sync_l74(job_id) ==
    /\ pc[job_id] = "l74"
    /\ jobs_db' = [jobs_db EXCEPT ![job_id] = Update(@, [status |-> "processing"])]
    /\ pc' = [pc EXCEPT ![job_id] = "l75"]
    /\ resp' = NoResp
    /\ UNCHANGED <<files, driver, reviews_data, exc, harvest, download>>
    /\ UNCHANGED loop
    /\ UNCHANGED extraction

\* line 75: jobs_db[job_id]["started_at"] = datetime.now().isoformat();
\* lines 78-82 build the scraper
run_scraper_sync_l75(job_id) ==
    /\ pc[job_id] = "l75"
    /\ jobs_db' = [jobs_db EXCEPT ![job_id] = Update(@, [started_at |-> Now])]
    /\ pc' = [pc EXCEPT ![job_id] = "setup"]
    /\ resp' = NoResp
    /\ UNCHANGED <<files, driver, reviews_data, exc, harvest, download>>
    /\ UNCHANGED loop
    /\ UNCHANGED extraction

\* what output_dir.mkdir and open(output_file, "w") raise
OpenErrors == {"FileNotFoundError", "PermissionError"}

\* what json.dump raises once the file is open: the disk is full, or a
\* string of a record has no utf-8 encoding
DumpErrors == {"OSError", "UnicodeEncodeError"}

\* a dump that loses the last record
json_dump_truncated(records) == SubSeq(records, 1, Len(records) - 1)

\* json.dump(reviews_data, f, ...): the records that json.load reads back
json_dump(records) == records

\* the file once the with block of lines 93-94 was left normally
WrittenFile(records) == [exists |-> TRUE, complete |-> TRUE, data |-> json_dump(records)]

\* the file when json.dump raised: open(..., "w") created it, and what was
\* written so far is not a JSON document
PartialFile == [exists |-> TRUE, complete |-> FALSE, data |-> << >>]

\* the handlers with "except Exception" placed first
Failed_catch_all_first(e) ==
    [status |-> "failed", error |-> e.msg,
     error_trace |-> "traceback", error_type |-> "unknown"]

\* the dict the handlers of lines 104-116 store for exception e
Failed(e) ==
    IF IsFileNotFoundError(e)
    THEN [status |-> "failed",
          error |-> <<"ChromeDriver not found at ", CHROMEDRIVER_PATH>>,
          error_type |-> "chromedriver_not_found"]
    ELSE IF IsValueError(e)
    THEN [status |-> "failed", error |-> e.msg, error_type |-> "no_reviews"]
    ELSE [status |-> "failed", error |-> e.msg,
          error_trace |-> "traceback", error_type |-> "unknown"]

\* lines 104-108 alone: an exception that is neither a FileNotFoundError nor
\* a ValueError ends the task without a handler
except_unhandled(job_id, e) ==
    /\ jobs_db' = IF IsFileNotFoundError(e) \/ IsValueError(e)
                  THEN [jobs_db EXCEPT ![job_id] = Update(@, Failed(e))]
                  ELSE jobs_db
    /\ exc' = [exc EXCEPT ![job_id] = NoExc]
    /\ pc' = [pc EXCEPT ![job_id] = "done"]

\* lines 104-116: the except clause that matches e runs and the task ends
except(job_id, e) ==
    /\ jobs_db' = [jobs_db EXCEPT ![job_id] = Update(@, Failed(e))]
    /\ exc' = [exc EXCEPT ![job_id] = NoExc]
    /\ pc' = [pc EXCEPT ![job_id] = "done"]

\* lines 86-94: the check of the harvest and the write of
\* output/<job_id>.json.  A raise in these lines transfers control to the
\* handlers of lines 104-116 within the same thread, so the raise and the
\* handler's update are one step.
run_scraper_sync_l86(job_id) ==
    /\ pc[job_id] = "l86"
    /\ IF reviews_data[job_id] = << >>
       THEN /\ except(job_id, Raise("ValueError",
                   <<"No reviews were extracted from this location">>))
            /\ UNCHANGED files
       ELSE \/ \E type \in OpenErrors :
                 /\ except(job_id, Raise(type, <<"output cannot be opened">>))
                 /\ UNCHANGED files
            \/ \E type \in DumpErrors :
                 /\ except(job_id, Raise(type, <<"write failed">>))
                 /\ files' = [files EXCEPT ![OutputFile(job_id)[2]] = PartialFile]
            \/ /\ files' = [files EXCEPT ![OutputFile(job_id)[2]] =
                                 WrittenFile(reviews_data[job_id])]
               /\ pc' = [pc EXCEPT ![job_id] = "l96"]
               /\ UNCHANGED <<jobs_db, exc>>
    /\ resp' = NoResp
    /\ UNCHANGED <<driver, reviews_data, harvest, download>>
    /\ UNCHANGED loop
    /\ UNCHANGED extraction

\* the update of lines 96-101 without the output file
Completed_no_output_file(job_id, records) ==
    [status |-> "completed", completed_at |-> Now, total_reviews |-> Len(records)]

\* the update of lines 96-101 counting one record too few
Completed_off_by_one(job_id, records) ==
    [status |-> "completed", completed_at |-> Now,
     total_reviews |-> Len(records) - 1, output_file |-> OutputFile(job_id)]

\* the dict of lines 96-101
Completed(job_id, records) ==
    [status |-> "completed", completed_at |-> Now,
     total_reviews |-> Len(records), output_file |-> OutputFile(job_id)]

\* lines 96-101: jobs_db[job_id].update({...})
run_scraper_sync_l96(job_id) ==
    /\ pc[job_id] = "l96"
    /\ jobs_db' = [jobs_db EXCEPT
          ![job_id] = Update(@, Completed(job_id, reviews_data[job_id]))]
    /\ pc' = [pc EXCEPT ![job_id] = "done"]
    /\ resp' = NoResp
    /\ UNCHANGED <<files, driver, reviews_data, exc, harvest, download>>
    /\ UNCHANGED loop
    /\ UNCHANGED extraction

\* lines 104-116 for an exception that scrape raised at line 84
run_scraper_sync_except(job_id) ==
    /\ pc[job_id] = "except"
    /\ except(job_id, exc[job_id])
    /\ resp' = NoResp
    /\ UNCHANGED <<files, driver, reviews_data, harvest, download>>
    /\ UNCHANGED loop
    /\ UNCHANGED extraction

(***************************************************************************)
(* The system: requests arrive at any time, tasks run on worker threads.   *)
(***************************************************************************)
\* the job ids a request may carry: 0 is a token no job ever gets
RequestIds == {0} \cup JobIds

Next ==
    \/ \E maps_url \in Urls : start_scrape(maps_url)
    \/ \E job_id \in RequestIds : get_job_status(job_id)
    \/ \E job_id \in RequestIds : download_results(job_id)
    \/ download_read
    \/ \E job_id \in JobIds : run_scraper_sync_l74(job_id)
    \/ \E job_id \in JobIds : run_scraper_sync_l75(job_id)
    \/ \E job_id \in JobIds : _setup_driver(job_id)
    \/ \E job_id \in JobIds : scrape_get(job_id)
    \/ \E job_id \in JobIds : _open_reviews_tab(job_id)
    \/ \E job_id \in JobIds : _scroll_reviews(job_id)
    \/ \E job_id \in JobIds : _extract_reviews(job_id)
    \/ \E job_id \in JobIds : scrape_finally(job_id)
    \/ \E job_id \in JobIds : run_scraper_sync_l86(job_id)
    \/ \E job_id \in JobIds : run_scraper_sync_l96(job_id)
    \/ \E job_id \in JobIds : run_scraper_sync_except(job_id)

Spec == Init /\ [][Next]_vars

\* the steps of the background task of one job
Task(job_id) ==
    \/ run_scraper_sync_l74(job_id)
    \/ run_scraper_sync_l75(job_id)
    \/ _setup_driver(job_id)
    \/ scrape_get(job_id)
    \/ _open_reviews_tab(job_id)
    \/ _scroll_reviews(job_id)
    \/ _extract_reviews(job_id)
    \/ scrape_finally(job_id)
    \/ run_scraper_sync_l86(job_id)
    \/ run_scraper_sync_l96(job_id)
    \/ run_scraper_sync_except(job_id)

\* the submissions and the tasks alone: get_job_status, download_results and
\* download_read write only resp and download, which no task reads
NextTasks ==
    \/ \E maps_url \in Urls : start_scrape(maps_url)
    \/ \E job_id \in JobIds : Task(job_id)

\* the thread pool runs every task that was added: a task that can take a
\* step is not passed over forever.  Every call of the driver returns or
\* raises within its timeout, and the scroll loop ends (SpecScroll).
FairSpec ==
    Init /\ [][NextTasks]_vars /\ \A job_id \in JobIds : WF_vars(Task(job_id))

(***************************************************************************)
(* Strings and the reads of page elements.  A string is a sequence of      *)
(* pieces: " " is white space, "tel:" the scheme of a phone link, any      *)
(* other piece is text without white space.                                *)
(***************************************************************************)
\* str.strip(): the leading white space
RECURSIVE StripLeft(_)
StripLeft(str) ==
    IF str # << >> /\ Head(str) = " " THEN StripLeft(Tail(str)) ELSE str

\* str.strip(): the trailing white space
RECURSIVE StripRight(_)
StripRight(str) ==
    IF str # << >> /\ str[Len(str)] = " "
    THEN StripRight(SubSeq(str, 1, Len(str) - 1))
    ELSE str

\* str.strip()
Strip(str) == StripRight(StripLeft(str))

\* str.replace(old, ""), for an old of one piece
RECURSIVE Replace(_, _)
Replace(str, old) ==
    IF str = << >> THEN << >>
    ELSE IF Head(str) = old THEN Replace(Tail(str), old)
    ELSE <<Head(str)>> \o Replace(Tail(str), old)

\* the texts an element of the page shows
Texts == {<< >>, <<" ">>, <<" ", "5", " ">>}

\* the outcomes of find_element followed by a read of the element found:
\* find_element raises NoSuchElementException, or the read raises
\* StaleElementReferenceException, or the read returns; href is the "href"
\* attribute, << >> when the element has none
Missing == [kind |-> "NoSuchElementException", text |-> << >>, href |-> << >>]
Stale == [kind |-> "StaleElementReferenceException", text |-> << >>, href |-> << >>]
Found(text, href) == [kind |-> "found", text |-> text, href |-> href]

\* the reads of a field of a review element
FieldReads == {Missing, Stale} \cup {Found(text, << >>) : text \in Texts}

\* the aria-label of a rating element
RatingReads == {Missing, Stale, Found(<<"5", " ", "stars">>, << >>)}

(***************************************************************************)
(* One call of GoogleMapsScraper._extract_company_info (scraper.py:86-119). *)
(* One action is one wait or one pass of the loop over phone_candidates.   *)
(***************************************************************************)
\* lines 99-105: the xpaths, in order
phone_candidates == 1..5

\* the href attributes of a phone element; << >> when it has none
Hrefs == {<< >>, <<"tel:">>, <<"tel:", " ">>, <<"tel:", " ", "5">>}

\* the reads of a phone candidate
PhoneReads == {Missing, Stale} \cup {Found(text, href) : text \in Texts, href \in Hrefs}

\* the reads of the h1 of the page; Missing is the TimeoutException of the wait
NameReads == {Missing, Stale} \cup {Found(text, << >>) : text \in Texts}

\* lines 110-113 without the href
PhoneValue_text_only(read) == Strip(read.text)

\* lines 110-113: the text, or the href without "tel:" when the text is empty
PhoneValue(read) ==
    IF Strip(read.text) # << >> THEN Strip(read.text)
    ELSE Replace(read.href, "tel:")

InitCompany ==
    /\ InitJobs
    /\ InitLocals
    /\ max_scrolls = 0
    /\ scroll_pc = "idle"
    /\ company_name = << >>
    /\ phone_number = << >>
    /\ cand = 0
    /\ info_pc = "name"
    /\ consulted = << >>
    /\ reviews = << >>
    /\ row = NoRow
    /\ present = << >>
    /\ rec_pc = "idle"

\* lines 91-97: the company name
info_name ==
    /\ info_pc = "name"
    /\ \E read \in NameReads :
          IF read = Stale
          THEN \* name_el.text raises: only TimeoutException is caught
               /\ info_pc' = "raised"
               /\ UNCHANGED company_name
          ELSE /\ company_name' = IF read = Missing THEN company_name
                                  ELSE Strip(read.text)
               /\ info_pc' = "phone"
    /\ UNCHANGED <<phone_number, cand, consulted, reviews, row, present, rec_pc>>
    /\ UNCHANGED <<jobs, loop>>

\* lines 107-117: one pass of the loop over phone_candidates
info_phone ==
    /\ info_pc = "phone"
    /\ cand + 1 \in phone_candidates
    /\ \E read \in PhoneReads :
          /\ consulted' = Append(consulted, read)
          /\ cand' = cand + 1
          /\ IF read = Stale
             THEN \* a read raises: only NoSuchElementException is caught
                  /\ info_pc' = "raised"
                  /\ UNCHANGED phone_number
             ELSE IF read = Missing
             THEN UNCHANGED <<phone_number, info_pc>>
             ELSE /\ phone_number' = PhoneValue(read)
                  /\ info_pc' = IF PhoneValue(read) # << >> THEN "break" ELSE "phone"
    /\ UNCHANGED <<company_name, reviews, row, present, rec_pc>>
    /\ UNCHANGED <<jobs, loop>>

\* line 119: return company_name, phone_number.strip()
info_return ==
    /\ \/ info_pc = "break"
       \/ info_pc = "phone" /\ cand + 1 \notin phone_candidates
    /\ phone_number' = Strip(phone_number)
    /\ info_pc' = "returned"
    /\ UNCHANGED <<company_name, cand, consulted, reviews, row, present, rec_pc>>
    /\ UNCHANGED <<jobs, loop>>

NextCompany ==
    \/ info_name
    \/ info_phone
    \/ info_return

SpecCompany == InitCompany /\ [][NextCompany]_vars

(***************************************************************************)
(* One call of GoogleMapsScraper._extract_reviews(company_name,            *)
(* phone_number) (scraper.py:202-260), on a page that holds up to MaxElems *)
(* review elements.  One action is one call of the driver and the          *)
(* statements up to the next call.                                         *)
(***************************************************************************)
\* what _extract_company_info returns for the texts of the page
Names == {Strip(text) : text \in Texts}

InitRecords ==
    /\ InitJobs
    /\ InitLocals
    /\ max_scrolls = 0
    /\ scroll_pc = "idle"
    /\ company_name \in Names
    /\ phone_number \in Names
    /\ cand = 0
    /\ info_pc = "idle"
    /\ consulted = << >>
    /\ reviews = << >>
    /\ row = NoRow
    /\ present = << >>
    /\ rec_pc = "find"

\* the handlers of lines 255-258, ending the pass
except_Exception_abort(review_id) ==
    /\ present' = Append(present, [id |-> review_id, stale |-> TRUE])
    /\ row' = NoRow
    /\ rec_pc' = "raised"
    /\ UNCHANGED reviews

\* lines 255-258: except StaleElementReferenceException / except Exception:
\* continue.  The element, with attribute review_id, yields no record.
except_Exception_continue(review_id) ==
    /\ present' = Append(present, [id |-> review_id, stale |-> TRUE])
    /\ row' = NoRow
    /\ rec_pc' = "next"
    /\ UNCHANGED reviews

\* lines 242-250: the dict appended for the locals r
NewRecord(r, name, phone) ==
    [review_id |-> r.review_id, reviewer |-> r.reviewer, rating |-> r.rating,
     review_text |-> r.text, date |-> r.date, company_name |-> name,
     phone_number |-> phone]

\* lines 205-206: reviews_data = [] and find_elements
extract_find ==
    /\ rec_pc = "find"
    /\ reviews' = << >>
    /\ \/ rec_pc' = "next"
       \/ rec_pc' = "raised"            \* find_elements raises
    /\ UNCHANGED <<company_name, phone_number, cand, info_pc, consulted, row, present>>
    /\ UNCHANGED <<jobs, loop>>

\* lines 208-213: the next element of the list and its data-review-id
extract_id ==
    /\ rec_pc = "next"
    /\ Len(present) < MaxElems
    /\ \E r \in Element :
          IF r.stale
          THEN except_Exception_continue(r.id)
          ELSE IF r.id = ""
          THEN \* line 212: continue
               /\ present' = Append(present, r)
               /\ UNCHANGED <<reviews, row, rec_pc>>
          ELSE /\ row' = [NoRow EXCEPT !.review_id = r.id]
               /\ rec_pc' = "rating"
               /\ UNCHANGED <<reviews, present>>
    /\ UNCHANGED <<company_name, phone_number, cand, info_pc, consulted>>
    /\ UNCHANGED <<jobs, loop>>

\* lines 214-219: the rating, the aria-label as it is
extract_rating ==
    /\ rec_pc = "rating"
    /\ \E read \in RatingReads :
          IF read = Stale
          THEN except_Exception_continue(row.review_id)
          ELSE /\ row' = IF read = Missing THEN row
                         ELSE [row EXCEPT !.rating = read.text]
               /\ rec_pc' = "text"
               /\ UNCHANGED <<reviews, present>>
    /\ UNCHANGED <<company_name, phone_number, cand, info_pc, consulted>>
    /\ UNCHANGED <<jobs, loop>>

\* lines 221-226: text = text_el.text.strip()
extract_text ==
    /\ rec_pc = "text"
    /\ \E read \in FieldReads :
          IF read = Stale
          THEN except_Exception_continue(row.review_id)
          ELSE /\ row' = IF read = Missing THEN row
                         ELSE [row EXCEPT !.text = Strip(read.text)]
               /\ rec_pc' = "reviewer"
               /\ UNCHANGED <<reviews, present>>
    /\ UNCHANGED <<company_name, phone_number, cand, info_pc, consulted>>
    /\ UNCHANGED <<jobs, loop>>

\* lines 228-233: reviewer = reviewer_el.text.strip()
extract_reviewer ==
    /\ rec_pc = "reviewer"
    /\ \E read \in FieldReads :
          IF read = Stale
          THEN except_Exception_continue(row.review_id)
          ELSE /\ row' = IF read = Missing THEN row
                         ELSE [row EXCEPT !.reviewer = Strip(read.text)]
               /\ rec_pc' = "date"
               /\ UNCHANGED <<reviews, present>>
    /\ UNCHANGED <<company_name, phone_number, cand, info_pc, consulted>>
    /\ UNCHANGED <<jobs, loop>>

\* lines 235-250: date = date_el.text.strip() and reviews_data.append
extract_date ==
    /\ rec_pc = "date"
    /\ \E read \in FieldReads :
          IF read = Stale
          THEN except_Exception_continue(row.review_id)
          ELSE LET r == IF read = Missing THEN row
                        ELSE [row EXCEPT !.date = Strip(read.text)]
               IN /\ reviews' = Append(reviews, NewRecord(r, company_name, phone_number))
                  /\ present' = Append(present, [id |-> row.review_id, stale |-> FALSE])
                  /\ row' = NoRow
                  /\ rec_pc' = "next"
    /\ UNCHANGED <<company_name, phone_number, cand, info_pc, consulted>>
    /\ UNCHANGED <<jobs, loop>>

\* line 260: the list is exhausted, return reviews_data
extract_return ==
    /\ rec_pc = "next"
    /\ rec_pc' = "returned"
    /\ UNCHANGED <<company_name, phone_number, cand, info_pc, consulted, reviews,
                   row, present>>
    /\ UNCHANGED <<jobs, loop>>

NextRecords ==
    \/ extract_find
    \/ extract_id
    \/ extract_rating
    \/ extract_text
    \/ extract_reviewer
    \/ extract_date
    \/ extract_return

SpecRecords == InitRecords /\ [][NextRecords]_vars

(***************************************************************************)
(* One call of GoogleMapsScraper._scroll_reviews (scraper.py:149-190), on  *)
(* a scraper constructed with any max_scrolls in 0..MaxScrolls and a page  *)
(* that shows any elements at each attempt.  One action is one pass of the *)
(* while loop.                                                             *)
(***************************************************************************)
max_stale == 6

\* line 164: the condition of the while loop, off by one
LoopGuard_one_more(stale, scrolls, limit) == stale < max_stale /\ scrolls <= limit

\* line 164: the condition of the while loop
LoopGuard(stale, scrolls, limit) == stale < max_stale /\ scrolls < limit

\* lines 171-175: the non-empty data-review-id attributes of the elements
CurrentIds(els) == {els[i].id : i \in DOMAIN els} \ {""}

\* line 179 with the set replaced instead of updated
SeenUpdate_replace(seen, new_reviews) == new_reviews

\* line 179: seen_ids.update(new_reviews)
SeenUpdate(seen, new_reviews) == seen \cup new_reviews

\* lines 178-182 without the reset of line 180
StaleStreak_no_reset(stale, new_reviews) ==
    IF new_reviews # {} THEN stale ELSE stale + 1

\* lines 178-182: stale_count after the attempt
StaleStreak(stale, new_reviews) ==
    IF new_reviews # {} THEN 0 ELSE stale + 1

InitScroll ==
    /\ InitJobs
    /\ InitLocals
    /\ InitExtraction
    /\ max_scrolls \in 0..MaxScrolls
    /\ scroll_pc = "wait"

\* lines 151-160: wait for the scroll container, then initialise the locals
scroll_wait ==
    /\ scroll_pc = "wait"
    /\ \/ scroll_pc' = "loop"
       \/ scroll_pc' = "raised"         \* TimeoutException of wait.until
    /\ seen_ids' = {}
    /\ stale_count' = 0
    /\ scroll_count' = 0
    /\ UNCHANGED <<max_scrolls, current_ids, observed, last_new>>
    /\ UNCHANGED jobs
    /\ UNCHANGED extraction

\* lines 164-184: one pass of the loop
scroll_attempt ==
    /\ scroll_pc = "loop"
    /\ LoopGuard(stale_count, scroll_count, max_scrolls)
    /\ \E script_ok \in BOOLEAN, els \in SeqsUpTo(Element, MaxElems) :
          IF ~script_ok \/ \E i \in DOMAIN els : els[i].stale
          THEN \* execute_script (line 165) or get_attribute (line 173) raises
               /\ scroll_pc' = "raised"
               /\ UNCHANGED <<seen_ids, stale_count, scroll_count, current_ids,
                              observed, last_new>>
          ELSE LET new_reviews == CurrentIds(els) \ seen_ids
               IN /\ current_ids' = CurrentIds(els)
                  /\ seen_ids' = IF new_reviews # {}
                                 THEN SeenUpdate(seen_ids, new_reviews)
                                 ELSE seen_ids
                  /\ stale_count' = StaleStreak(stale_count, new_reviews)
                  /\ scroll_count' = scroll_count + 1
                  /\ observed' = observed \cup CurrentIds(els)
                  /\ last_new' = IF new_reviews # {} THEN scroll_count + 1 ELSE last_new
                  /\ UNCHANGED scroll_pc
    /\ UNCHANGED max_scrolls
    /\ UNCHANGED jobs
    /\ UNCHANGED extraction

\* lines 164, 190: the condition fails and the call returns seen_ids
scroll_return ==
    /\ scroll_pc = "loop"
    /\ ~LoopGuard(stale_count, scroll_count, max_scrolls)
    /\ scroll_pc' = "returned"
    /\ UNCHANGED <<max_scrolls, seen_ids, stale_count, scroll_count, current_ids,
                   observed, last_new>>
    /\ UNCHANGED jobs
    /\ UNCHANGED extraction

NextScroll ==
    \/ scroll_wait
    \/ scroll_attempt
    \/ scroll_return

SpecScroll == InitScroll /\ [][NextScroll]_vars

(***************************************************************************)
(* The end of scrape (scraper.py:281-284): _scroll_reviews, whose result   *)
(* is not assigned, then _extract_reviews over the elements the page holds *)
(* at that time.                                                           *)
(***************************************************************************)
\* line 284, after the _scroll_reviews() of line 281 has returned: the
\* records are those of the elements present now; seen_ids is not read
harvest_extract ==
    /\ scroll_pc = "returned"
    /\ rec_pc = "idle"
    /\ \E elements \in SeqsUpTo(Element, MaxElems) :
          /\ present' = elements
          /\ reviews' = ExtractReviews(elements)
    /\ rec_pc' = "returned"
    /\ UNCHANGED <<company_name, phone_number, cand, info_pc, consulted, row>>
    /\ UNCHANGED <<jobs, loop>>

NextHarvest ==
    \/ NextScroll
    \/ harvest_extract

SpecHarvest == InitScroll /\ [][NextHarvest]_vars

(***************************************************************************)
(* The claims.                                                             *)
(***************************************************************************)
Status(job_id) == jobs_db[job_id]["status"]

Done(job_id) == pc[job_id] = "done"

\* no two records of the list have the same id
UniqueIds(records) ==
    \A i, k \in 1..Len(records) : records[i].review_id = records[k].review_id => i = k

StatusSteps ==
    {<<"queued", "processing">>, <<"processing", "completed">>, <<"processing", "failed">>}

\* C1: a job enters the map as queued, every step leaves its status alone or
\* moves it queued -> processing, processing -> completed or processing ->
\* failed; so queued and processing are never re-entered and completed and
\* failed are never left, and no job leaves the map.
C1_StatusMachine ==
    [][ /\ \A j \in DOMAIN jobs_db :
              /\ j \in DOMAIN jobs_db'
              /\ \/ jobs_db'[j]["status"] = jobs_db[j]["status"]
                 \/ <<jobs_db[j]["status"], jobs_db'[j]["status"]>> \in StatusSteps
        /\ \A j \in DOMAIN jobs_db' \ DOMAIN jobs_db : jobs_db'[j]["status"] = "queued"
      ]_vars

\* C1 witness: one job went queued -> processing -> completed and the other
\* queued -> processing -> failed
C1_Witness ==
    /\ DOMAIN jobs_db = JobIds
    /\ \E j, k \in JobIds : Status(j) = "completed" /\ Status(k) = "failed"

\* C2: the job dict a /job request returns is never one caught mid-update:
\* with status processing, completed or failed it carries started_at, and
\* with status completed it carries completed_at, total_reviews and output_file.
C2_ConsistentSnapshot ==
    (resp.route = "job" /\ resp.status_code = 200) =>
        /\ resp.body["status"] \in {"processing", "completed", "failed"}
              => "started_at" \in DOMAIN resp.body
        /\ resp.body["status"] = "completed"
              => {"completed_at", "total_reviews", "output_file"} \subseteq DOMAIN resp.body

\* C3: a job whose harvest returned zero records is never completed, and once
\* its task has ended it is failed with error_type no_reviews; a completed
\* job is one whose harvest returned at least one record.
C3_NoRecordsFails ==
    \A j \in DOMAIN jobs_db :
        /\ (harvest[j] = "returned" /\ reviews_data[j] = << >>) =>
              /\ Status(j) # "completed"
              /\ Done(j) => /\ Status(j) = "failed"
                            /\ jobs_db[j]["error_type"] = "no_reviews"
        /\ Status(j) = "completed" => (harvest[j] = "returned" /\ reviews_data[j] # << >>)

\* C3 witness: the task of a job whose harvest returned no record has ended
C3_Witness ==
    \E j \in DOMAIN jobs_db :
        Done(j) /\ harvest[j] = "returned" /\ reviews_data[j] = << >>

\* C4 as stated: a job whose harvest returned at least one record, with
\* unique ids, ends completed, with total_reviews the number of records in
\* its output file.
C4_HarvestCompletes ==
    \A j \in DOMAIN jobs_db :
        (Done(j) /\ harvest[j] = "returned" /\ reviews_data[j] # << >>
                 /\ UniqueIds(reviews_data[j])) =>
            /\ Status(j) = "completed"
            /\ jobs_db[j]["total_reviews"] = Len(files[j].data)

\* C4 amended: such a job is processing until its task ends; it ends
\* completed when the write of its output file succeeded, with total_reviews
\* the number of records in the file and in the harvest, and it ends failed
\* when the write raised.
C4_HarvestCompletesIfWritten ==
    \A j \in DOMAIN jobs_db :
        (harvest[j] = "returned" /\ reviews_data[j] # << >>
                 /\ UniqueIds(reviews_data[j])) =>
            /\ ~Done(j) => Status(j) = "processing"
            /\ (Done(j) /\ files[j].complete) =>
                  /\ Status(j) = "completed"
                  /\ jobs_db[j]["total_reviews"] = Len(files[j].data)
                  /\ jobs_db[j]["total_reviews"] = Len(reviews_data[j])
            /\ (Done(j) /\ ~files[j].complete) => Status(j) = "failed"

\* C4 witness: a job with two records of different ids has completed
C4_Witness ==
    \E j \in DOMAIN jobs_db :
        /\ Done(j) /\ Status(j) = "completed"
        /\ Len(reviews_data[j]) = 2 /\ UniqueIds(reviews_data[j])

\* C5: /job and /download answer 404 "Job not found" exactly for a job_id
\* that is not in the map; /job answers a known job with its dict; /download
\* answers a known job that is not completed with 400 "Job not completed
\* yet", and a completed job with the records of its output file.
C5_QueryAnswers ==
    /\ resp.route \in {"job", "download"} =>
          IF resp.job_id \notin DOMAIN jobs_db
          THEN resp.status_code = 404 /\ resp.detail = "Job not found"
          ELSE IF resp.route = "job"
          THEN resp.status_code = 200 /\ resp.body = jobs_db[resp.job_id]
          ELSE IF Status(resp.job_id) # "completed"
          THEN resp.status_code = 400 /\ resp.detail = "Job not completed yet"
          ELSE resp.status_code = 200 /\ resp.data = files[resp.job_id].data
    /\ download # 0 =>
          /\ download \in DOMAIN jobs_db
          /\ Status(download) = "completed"
          /\ files[download].complete

\* C5 witness: /download answered NotReady for a job that is processing,
\* while another job_id is unknown
C5_Witness ==
    /\ resp.route = "download" /\ resp.status_code = 400
    /\ Status(resp.job_id) = "processing"
    /\ DOMAIN jobs_db # JobIds

\* C6: in every job dict, output_file and total_reviews are present exactly
\* when the status is completed, and error and error_type exactly when it is
\* failed.
C6_FieldPresence ==
    \A j \in DOMAIN jobs_db :
        /\ "output_file" \in DOMAIN jobs_db[j] <=> Status(j) = "completed"
        /\ "total_reviews" \in DOMAIN jobs_db[j] <=> Status(j) = "completed"
        /\ "error" \in DOMAIN jobs_db[j] <=> Status(j) = "failed"
        /\ "error_type" \in DOMAIN jobs_db[j] <=> Status(j) = "failed"

\* C6 witness: a completed job with its output_file next to a failed job
\* with its error_type
C6_Witness ==
    \E j, k \in DOMAIN jobs_db :
        /\ Status(j) = "completed" /\ "output_file" \in DOMAIN jobs_db[j]
        /\ Status(k) = "failed" /\ "error_type" \in DOMAIN jobs_db[k]

\* C7: an output file exists only for a job whose task completes: it is
\* never left partially written, and a job that ended failed has none.
C7_FileOnlyIfCompleted ==
    \A j \in JobIds :
        files[j].exists =>
            /\ files[j].complete
            /\ Status(j) # "failed"
            /\ Done(j) => Status(j) = "completed"

\* C8: /download returns records only for a completed job, and they are the
\* whole list scrape returned; the whole list is in the output file from the
\* moment the status is completed.
C8_NoPartialResults ==
    /\ (resp.route = "download" /\ resp.status_code = 200) =>
          /\ Status(resp.job_id) = "completed"
          /\ harvest[resp.job_id] = "returned"
          /\ resp.data = reviews_data[resp.job_id]
    /\ \A j \in DOMAIN jobs_db :
          Status(j) = "completed" =>
              /\ files[j].exists /\ files[j].complete
              /\ files[j].data = reviews_data[j]

\* C8 witness: /download returned the two records of a completed job while
\* the task of the other job is running
C8_Witness ==
    /\ resp.route = "download" /\ resp.status_code = 200
    /\ Len(resp.data) = 2
    /\ \E k \in DOMAIN jobs_db : Status(k) = "processing"

\* the error_type values the handlers store for the other kinds of failure
OtherKinds == {"chromedriver_not_found", "no_reviews", "unknown"}

ReviewsTabMessage ==
    <<"Scraping failed: ", "Could not open reviews section: ",
      "Could not find the reviews tab on the page">>

C10_SessionSetupKind ==
    \A j \in DOMAIN jobs_db :
        (Done(j) /\ harvest[j] = "no_driver") =>
            /\ Status(j) = "failed"
            /\ jobs_db[j]["error_type"] = "chromedriver_not_found"

\* C11: once scrape has returned or raised, the session it created is no
\* longer open: past line 84 of run_scraper_sync, and in particular for a job
\* that is completed or failed, the driver is None (never created) or quit.
C11_SessionReleased ==
    \A j \in DOMAIN jobs_db :
        /\ pc[j] \in {"l86", "l96", "except", "done"} => driver[j] # "open"
        /\ Status(j) \in {"completed", "failed"} => driver[j] # "open"
        /\ harvest[j] = "returned" => driver[j] = "quit"

\* C11 witness: a job failed by a fault after its session was created, and
\* the session was quit
C11_Witness ==
    \E j \in DOMAIN jobs_db :
        Status(j) = "failed" /\ harvest[j] = "setup_failed" /\ driver[j] = "quit"

\* C12: the list scrape returns holds no two records with the same
\* review_id, whatever elements the page holds at extraction time.
C12_UniqueRecordIds ==
    \A j \in DOMAIN jobs_db :
        harvest[j] = "returned" => UniqueIds(reviews_data[j])

Min(a, b) == IF a < b THEN a ELSE b

\* C13: from one attempt of the scroll loop to the next seen_ids never loses
\* an id, and after every attempt (so also when it is returned) it is the
\* union of the current_ids of all attempts made.
C13_SeenIsUnion ==
    [][seen_ids \subseteq seen_ids' /\ seen_ids' = observed']_vars

\* the loop has returned both ids although the last attempt saw no element
C13_Witness ==
    /\ scroll_pc = "returned"
    /\ seen_ids = ReviewIds
    /\ current_ids = {}
    /\ last_new > 1

\* C14 as stated: a loop whose last new id came at attempt k (0 if none came)
\* returns after attempt k + max_stale.
C14_StopsAfterStaleLimit ==
    scroll_pc = "returned" => scroll_count = last_new + max_stale

\* C14 amended: the stale streak counts the attempts since the last new id,
\* and the loop returns after attempt k + max_stale or after attempt
\* max_scrolls, whichever comes first.
C14_StopsAfterStaleLimitOrCap ==
    /\ stale_count = scroll_count - last_new
    /\ scroll_pc = "returned" =>
           scroll_count = Min(last_new + max_stale, max_scrolls)

\* a new id came at attempt k >= 1 and the loop returned at k + max_stale,
\* below max_scrolls
C14_Witness ==
    /\ scroll_pc = "returned"
    /\ last_new >= 1
    /\ scroll_count = last_new + max_stale
    /\ scroll_count < max_scrolls

\* C15: the loop never makes more than max_scrolls attempts, and when it
\* returns with a stale streak below max_stale it has made exactly
\* max_scrolls attempts.
C15_StopsAtCap ==
    /\ scroll_count <= max_scrolls
    /\ scroll_pc = "returned" /\ stale_count < max_stale =>
           scroll_count = max_scrolls

\* new ids came twice, the streak stayed below max_stale, and the loop
\* returned at a max_scrolls above max_stale
C15_Witness ==
    /\ scroll_pc = "returned"
    /\ stale_count < max_stale
    /\ max_scrolls > max_stale
    /\ scroll_count = max_scrolls
    /\ last_new > 1

\* C16: a step of the background task of job j leaves the record and the
\* output file of every other job as they were, in every interleaving of
\* the two tasks and the requests.
C16_JobsIsolated ==
    [][\A j \in JobIds :
          (pc[j] # "absent" /\ pc'[j] # pc[j]) =>
              \A k \in JobIds \ {j} :
                  /\ files'[k] = files[k]
                  /\ k \in DOMAIN jobs_db =>
                         k \in DOMAIN jobs_db' /\ jobs_db'[k] = jobs_db[k]]_vars

\* two jobs for different urls have both ended, one completed with its own
\* count and file, the other failed
C16_Witness ==
    /\ DOMAIN jobs_db = JobIds
    /\ jobs_db[1].maps_url # jobs_db[2].maps_url
    /\ Status(1) = "completed" /\ jobs_db[1].total_reviews = 2
    /\ Status(2) = "failed" /\ files[2] = NoFile
    /\ pc[1] = "done" /\ pc[2] = "done"

\* C17: under fair scheduling of the tasks, every job in the map eventually
\* has status completed or failed, whatever the driver and the file system
\* do.
C17_JobsEnd ==
    \A j \in JobIds :
        (j \in DOMAIN jobs_db) ~>
            (j \in DOMAIN jobs_db /\ Status(j) \in {"completed", "failed"})

\* one job failed in the harvest and one in the write of its result, and
\* both failures are on the records
C17_Witness ==
    /\ DOMAIN jobs_db = JobIds
    /\ harvest[1] = "scroll_stale" /\ Status(1) = "failed"
    /\ harvest[2] = "returned" /\ files[2] = PartialFile /\ Status(2) = "failed"
    /\ jobs_db[1].error_type = "unknown" /\ jobs_db[2].error_type = "unknown"

\* the statements of run_scraper_sync and scrape in the order of the text
PcRank(p) ==
    CASE p = "absent" -> 0
      [] p = "l74" -> 1
      [] p = "l75" -> 2
      [] p = "setup" -> 3
      [] p = "get" -> 4
      [] p = "tab" -> 5
      [] p = "scroll" -> 6
      [] p = "extract" -> 7
      [] p = "finally" -> 8
      [] p \in {"l86", "except"} -> 9
      [] p = "l96" -> 10
      [] p = "done" -> 11

\* C18: the task of a job starts with the creation of its record and at no
\* other time, it only moves forward through run_scraper_sync and scrape (no
\* statement runs twice), its scraper opens at most one session, and the
\* record of an existing job changes only in a step of its own task.
C18_RunsOnce ==
    [][\A j \in JobIds :
          /\ (j \notin DOMAIN jobs_db /\ j \in DOMAIN jobs_db')
                 <=> (pc[j] = "absent" /\ pc'[j] = "l74")
          /\ pc'[j] # pc[j] => PcRank(pc'[j]) > PcRank(pc[j])
          /\ driver'[j] # driver[j] =>
                 <<driver[j], driver'[j]>> \in {<<None, "open">>, <<"open", "quit">>}
          /\ (j \in DOMAIN jobs_db /\ jobs_db'[j] # jobs_db[j]) =>
                 (pc[j] # "absent" /\ pc'[j] # pc[j])]_vars

\* a job whose page load failed has ended as failed with its one session
\* closed, while the other job is still queued
C18_Witness ==
    /\ DOMAIN jobs_db = JobIds
    /\ pc[1] = "done" /\ harvest[1] = "get_failed" /\ driver[1] = "quit"
    /\ Status(1) = "failed"
    /\ pc[2] = "l74" /\ Status(2) = "queued"

\* C19: a step of start_scrape for maps_url adds one record under a job_id
\* no job had, leaves every existing record as it was, and answers with the
\* new record: status queued, the maps_url submitted, and the harvest of
\* the new job not yet begun.
C19_SubmitAddsQueuedJob ==
    [][\A maps_url \in Urls :
          start_scrape(maps_url) =>
              LET job_id == resp'.job_id
              IN /\ job_id \notin DOMAIN jobs_db
                 /\ DOMAIN jobs_db' = DOMAIN jobs_db \cup {job_id}
                 /\ \A k \in DOMAIN jobs_db : jobs_db'[k] = jobs_db[k]
                 /\ jobs_db'[job_id] = NewJob(job_id, maps_url)
                 /\ resp'.route = "scrape" /\ resp'.status_code = 200
                 /\ resp'.body.job_id = job_id
                 /\ resp'.body.status = "queued"
                 /\ resp'.body.maps_url = maps_url
                 /\ pc'[job_id] = "l74" /\ harvest'[job_id] = "pending"
                 /\ driver'[job_id] = None]_vars

\* the url of a failed job was submitted again: the answer is a new queued
\* job, and the failed one is still in the map
C19_Witness ==
    /\ resp.route = "scrape" /\ resp.job_id = 2
    /\ resp.body.status = "queued"
    /\ 1 \in DOMAIN jobs_db /\ Status(1) = "failed"
    /\ resp.body.maps_url = jobs_db[1].maps_url

\* C20 as stated: scrape never returns an empty list.
C20_EngineNeverReturnsEmpty ==
    \A j \in DOMAIN jobs_db :
        harvest[j] = "returned" => reviews_data[j] # << >>

\* C20 amended: when the try block of scrape ends without an exception and
\* with no record, scrape returns the empty list; the next step of
\* run_scraper_sync raises the ValueError of line 87 itself and ends the job
\* as failed, no_reviews, with that message and no prefix of scrape.
C20_EmptyHarvestFailsInTask ==
    [][\A j \in JobIds :
          (reviews_data[j] = << >> /\ pc'[j] # pc[j]) =>
              /\ (pc[j] = "finally" /\ exc[j] = NoExc) =>
                     /\ pc'[j] = "l86"
                     /\ harvest'[j] = "returned"
                     /\ exc'[j] = NoExc
                     /\ reviews_data'[j] = << >>
              /\ pc[j] = "l86" =>
                     /\ pc'[j] = "done"
                     /\ jobs_db'[j].status = "failed"
                     /\ jobs_db'[j].error_type = "no_reviews"
                     /\ jobs_db'[j].error =
                            <<"No reviews were extracted from this location">>]_vars

\* scrape returned the empty list and the task recorded the failure with the
\* message of line 87
C20_Witness ==
    \E j \in DOMAIN jobs_db :
        /\ pc[j] = "done"
        /\ harvest[j] = "returned"
        /\ reviews_data[j] = << >>
        /\ jobs_db[j].error = <<"No reviews were extracted from this location">>

\* the element yields a record: its id reads non-empty and no read raises
Yields(r) == ~r.stale /\ r.id # ""

RecordIds(records) == [i \in DOMAIN records |-> records[i].review_id]

ElementIds(elements) == [i \in DOMAIN elements |-> elements[i].id]

\* C21: once the loop over the elements has begun the pass does not raise;
\* the records are, in order, one for each element passed whose id is not
\* empty and whose reads did not raise, none for the others; and every
\* record has a non-empty review_id and the company_name of the call.
C21_StaleSkipped ==
    /\ rec_pc = "raised" => present = << >>
    /\ RecordIds(reviews) = ElementIds(SelectSeq(present, Yields))
    /\ \A i \in DOMAIN reviews :
           /\ reviews[i].review_id # ""
           /\ reviews[i].company_name = company_name

\* the first element went stale and the second one yielded the only record
C21_Witness ==
    /\ rec_pc = "returned"
    /\ Len(present) = 2
    /\ present[1] = [id |-> "r1", stale |-> TRUE]
    /\ RecordIds(reviews) = <<"r2">>
    /\ company_name # << >>

\* C22: the extraction of the company name and of the phone number never
\* raises, whatever the reads of the page elements do.
C22_FieldsNeverRaise ==
    info_pc # "raised"

\* the candidates tried that resolved to an element
Resolved == {i \in DOMAIN consulted : consulted[i].kind = "found"}

\* the text of a candidate's element without the white space around it, or
\* its href without the "tel:" when that text is empty
TextOrHref(read) ==
    IF Strip(read.text) # << >> THEN Strip(read.text)
    ELSE Strip(Replace(read.href, "tel:"))

\* the candidates tried that resolved to an element with a text or an href
\* which, without "tel:", is not empty
Valued ==
    {i \in Resolved :
        Strip(consulted[i].text) # << >> \/ Replace(consulted[i].href, "tel:") # << >>}

\* C23 as stated: the phone number returned is the text or href of the first
\* candidate that resolved, no candidate after it is tried, and it is empty
\* when no candidate resolved.
C23_FirstResolved ==
    info_pc = "returned" =>
        IF Resolved = {} THEN phone_number = << >>
        ELSE LET i == CHOOSE k \in Resolved : \A m \in Resolved : k <= m
             IN /\ phone_number = TextOrHref(consulted[i])
                /\ Len(consulted) = i

\* C23 amended: the phone number returned is the text or href of the first
\* candidate that resolved to an element with a non-empty one, no candidate
\* after that one is tried, and when there is none every candidate has been
\* tried and the phone number is empty.
C23_FirstNonEmpty ==
    info_pc = "returned" =>
        IF Valued = {}
        THEN phone_number = << >> /\ Len(consulted) = 5
        ELSE LET i == CHOOSE k \in Valued : \A m \in Valued : k <= m
             IN /\ phone_number = TextOrHref(consulted[i])
                /\ Len(consulted) = i

\* the first candidate resolved to a button without text and href, the
\* second was missing, the third gave the number by its href
C23_Witness ==
    /\ info_pc = "returned"
    /\ Len(consulted) = 3
    /\ consulted[1] = Found(<< >>, << >>)
    /\ consulted[2] = Missing
    /\ Strip(consulted[3].text) = << >>
    /\ phone_number = <<"5">>

\* C24: every id of the set the scroll loop returned is the review_id of a
\* record scrape returns, unless an element with that id was present at the
\* extraction and was skipped as stale.
C24_SeenIdsHarvested ==
    (scroll_pc = "returned" /\ rec_pc = "returned") =>
        \A id \in seen_ids :
            \/ \E i \in DOMAIN reviews : reviews[i].review_id = id
            \/ \E i \in DOMAIN present : present[i].id = id /\ present[i].stale

\* C25: a job is failed with error_type no_reviews only if scrape returned
\* and returned the empty list.
C25_NoReviewsOnlyIfEmpty ==
    \A j \in DOMAIN jobs_db :
        (Status(j) = "failed" /\ jobs_db[j]["error_type"] = "no_reviews") =>
            (harvest[j] = "returned" /\ reviews_data[j] = << >>)

=============================================================================
